---- MODULE Spec2Model ----
(***************************************************************************)
(* Incremental speech-playback engine of assistivox-ai                     *)
(* (src/gui/tts/tts_manager.py): the TTSManager controller running on the  *)
(* GUI thread, its TTSWorker threads (QThread.run), their read-ahead       *)
(* threads, and the queue of cross-thread Qt signal deliveries.            *)
(*                                                                         *)
(* Keys are <<block_index, sentence_index>>, both 0-based as in the source.*)
(* A document is the sequence of the blocks' sentence counts, so block b   *)
(* of document d has d[b + 1] sentences.                                   *)
(*                                                                         *)
(* Timing assumptions written into the guards:                             *)
(*  - a join/wait with a timeout can only time out while the thread waited *)
(*    for sits in a synthesis call (a subprocess of up to 20 s); every     *)
(*    other step answers faster than the shortest timeout (1 s);           *)
(*  - QThread.terminate() has taken effect when the following wait()       *)
(*    returns; the terminated thread runs no further statement, not even   *)
(*    its finally block;                                                   *)
(*  - signals emitted by a worker thread reach the manager as queued       *)
(*    events, delivered in order when the GUI thread is idle; an event     *)
(*    already posted is still delivered after a disconnect;                *)
(*  - a single-shot timer fires only after the events posted before it was *)
(*    armed, events posted later may be delivered before it fires.         *)
(***************************************************************************)
EXTENDS Integers, Sequences, FiniteSets

(* ---------------------------- bounds ----------------------------------- *)

\* number of TTSWorker objects (sessions) one behaviour may create
MaxWorkers == 2

\* number of queued events beyond which a worker's emit waits
MaxQueue == 2

\* the chunks after a response's first twelve bytes, the bytes of a chunk's
\* payload, and the bytes a cut stream may miss at its end
MaxChunks == 2
MaxPayload == 2
MaxTruncate == 2

(* ------------------------ program constants ---------------------------- *)

\* read-ahead depth: _get_next_sentences(current_block, current_sent, 5)
ReadAheadCount == 5

\* relevance window of _extract_relevant_buffer_entries
RelevantBlockDistance == 2

RelevantSentenceDistance == 10

(* --------------------------- documents --------------------------------- *)

\* the documents a behaviour may be about (sentence count of each block)
Documents == { <<2>>, <<1, 0, 1>>, <<0, 1>>, <<0>> }

NumBlocks(d) == Len(d)

NumSentences(d, b) == d[b + 1]

TotalSentences(d) ==
    LET RECURSIVE Sum(_)
        Sum(i) == IF i > Len(d) THEN 0 ELSE d[i] + Sum(i + 1)
    IN Sum(1)

SentenceKeys(d) ==
    UNION { { <<b, s>> : s \in 0 .. NumSentences(d, b) - 1 } :
            b \in 0 .. NumBlocks(d) - 1 }

KeyLess(a, b) == a[1] < b[1] \/ (a[1] = b[1] /\ a[2] < b[2])

Abs(n) == IF n < 0 THEN -n ELSE n

WorkerIds == 1 .. MaxWorkers

VARIABLES
    document,            \* what the document collaborator would detect
    configured,          \* config holds a tts engine and a voice
    sentence_data,       \* TTSManager.sentence_data (<< >> is None, which
                         \* "not self.sentence_data" takes for an empty list)
    is_speaking,         \* TTSManager.is_speaking
    tts_worker,          \* TTSManager.tts_worker (0 is None)
    is_navigating,       \* TTSManager._is_navigating
    tts_sentence_index,  \* TTSManager.tts_sentence_index
    cpc,                 \* where the GUI thread is inside a handler
    cop,                 \* the handler the GUI thread is inside
    nav_target,          \* _navigate_to_sentence's (block_idx, sent_idx)
    preserved_buffer,    \* _navigate_to_sentence's preserved_buffer
    queue,               \* events posted to the manager, oldest first
    workers,             \* the TTSWorker objects created so far
    nextWorker,          \* how many TTSWorker objects were created
    error_boxes,         \* "TTS Error" message boxes shown, by worker
    last_call,           \* the manager method that returned last
    stream,              \* whose audio sounddevice's one stream plays (0: none)
    test_pc,             \* where the voice test's worker thread is
    buffer_lock,         \* the thread inside "with _buffer_lock", by worker
    artifact             \* the file a Kokoro synthesis wrote, and how far
                         \* _generate_audio_for_sentence is with it

vars == << artifact, document, configured, sentence_data, is_speaking,
           tts_worker, is_navigating, tts_sentence_index, cpc, cop, nav_target,
           preserved_buffer, queue, workers, nextWorker, error_boxes,
           last_call, stream, test_pc, buffer_lock >>

\* the sound device and the settings dialog's voice test
deviceVars == << stream, test_pc >>

ctrlVars == << sentence_data, is_speaking, tts_worker, is_navigating,
               tts_sentence_index, cpc, cop, nav_target, preserved_buffer,
               nextWorker, error_boxes, last_call >>

(* ------------------------------ workers -------------------------------- *)

\* a TTSWorker that was not constructed yet
NoWorker ==
    [ start_block |-> 0, start_sentence |-> 0,
      stop_flag |-> FALSE, stop_requested |-> FALSE,
      readahead_stop_flag |-> FALSE,
      audio_buffer |-> {},
      current_playback_position |-> <<0, 0>>,
      wstate |-> "none", pc |-> "none",
      block_index |-> 0, sentence_index |-> 0,
      rstate |-> "none", rpc |-> "none", sentences_to_buffer |-> <<>>,
      finished_connected |-> FALSE,
      started |-> <<>>, finished_emitted |-> 0, outcome |-> "none" ]

\* a TTSWorker built on the tts object of the worker before it, whose
\* _stop_requested it then shares
NewWorker_SharedBackend(key, inherited) ==
    [ NoWorker EXCEPT
        !.start_block = key[1], !.start_sentence = key[2],
        !.audio_buffer = inherited,
        !.current_playback_position = key,
        !.stop_requested =
            nextWorker > 0 /\ workers[nextWorker].stop_requested,
        !.wstate = "running", !.pc = "start",
        !.finished_connected = TRUE ]

\* TTSWorker.__init__ with a fresh tts object, the inherited buffer, the
\* signal connections and QThread.start()
NewWorker(key, inherited) ==
    [ NoWorker EXCEPT
        !.start_block = key[1], !.start_sentence = key[2],
        !.audio_buffer = inherited,
        !.current_playback_position = key,
        !.wstate = "running", !.pc = "start",
        !.finished_connected = TRUE ]

StopRequested(w) == workers[w].stop_flag \/ workers[w].stop_requested

isRunning(w) == workers[w].wstate = "running"

ReadaheadAlive(w) == workers[w].rstate = "running"

\* TTSWorker._get_next_sentences
RECURSIVE NextSentencesFrom(_, _, _, _)
NextSentencesFrom(d, block_idx, sent_idx, count) ==
    IF count = 0 \/ block_idx >= NumBlocks(d) THEN << >>
    ELSE IF sent_idx < NumSentences(d, block_idx)
         THEN << <<block_idx, sent_idx>> >>
              \o NextSentencesFrom(d, block_idx, sent_idx + 1, count - 1)
         ELSE NextSentencesFrom(d, block_idx + 1, 0, count)

\* the list that starts at the current sentence instead of the one after it
get_next_sentences_FromCurrent(d, current_block, current_sent, count) ==
    NextSentencesFrom(d, current_block, current_sent, count)

\* lines 184-187: the list starts at the sentence after the current one
get_next_sentences(d, current_block, current_sent, count) ==
    NextSentencesFrom(d, current_block, current_sent + 1, count)

TimerEvent == [ type |-> "timer", w |-> 0, key |-> <<0, 0>> ]

SignalEvent(t, w, k) == [ type |-> t, w |-> w, key |-> k ]

(* ------------------------- TTSWorker.run ------------------------------- *)

WSet(w, rec) == workers' = [workers EXCEPT ![w] = rec]

\* line 29, _buffer_lock: the threads that enter "with _buffer_lock" for some
\* worker are run(), the read-ahead thread and the GUI thread
LockThreads == { "run", "readahead", "gui" }

\* thread t enters a with-block of worker w: it holds the lock already or
\* takes the free lock; a lock held by another thread makes it wait
LockFor(w, t) == buffer_lock[w] \in { "free", t }

\* the with-block ends
Unlocked(w) == [ buffer_lock EXCEPT ![w] = "free" ]

\* the thread of run() is gone, and with it run()'s local variables and the
\* record of what this run emitted
ThreadGone(rec) ==
    [rec EXCEPT !.block_index = 0, !.sentence_index = 0, !.started = << >>]

\* run() leaves its try block: the finally clause is next
ToFinally(rec, how) == [rec EXCEPT !.pc = "finally", !.outcome = how]

\* line 52: _start_readahead_thread() resets the flag and starts the thread
WorkerStartReadahead(w) ==
    /\ isRunning(w) /\ workers[w].pc = "start"
    /\ WSet(w, [workers[w] EXCEPT
                  !.readahead_stop_flag = FALSE,
                  !.rstate = "running", !.rpc = "loop",
                  !.block_index = workers[w].start_block,
                  !.pc = "block"])
    /\ UNCHANGED << deviceVars, buffer_lock, artifact, document, configured, queue >>
    /\ UNCHANGED ctrlVars

\* lines 52, 122-124: the read-ahead thread cannot be started, the exception
\* reaches run()'s handler, which emits error (never disconnected)
WorkerStartFails(w) ==
    /\ isRunning(w) /\ workers[w].pc = "start"
    /\ Len(queue) < MaxQueue
    /\ queue' = Append(queue, SignalEvent("error", w, <<0, 0>>))
    /\ WSet(w, ToFinally(workers[w], "error"))
    /\ UNCHANGED << deviceVars, buffer_lock, artifact, document, configured >>
    /\ UNCHANGED ctrlVars

\* lines 55-72 and 116-120: head of the block loop, and the check after it
WorkerBlock(w) ==
    LET r == workers[w]
        d == sentence_data
        b == r.block_index
    IN
    /\ isRunning(w) /\ r.pc = "block"
    /\ IF b >= NumBlocks(d)
       THEN IF ~StopRequested(w)
            THEN WSet(w, [r EXCEPT !.pc = "emit_finished"])
            ELSE WSet(w, ToFinally(r, "cancelled"))
       ELSE IF StopRequested(w)
            THEN WSet(w, ToFinally(r, "cancelled"))
            ELSE IF NumSentences(d, b) = 0
                 THEN WSet(w, [r EXCEPT !.block_index = b + 1])
                 ELSE WSet(w, [r EXCEPT
                        !.sentence_index =
                            IF b = r.start_block THEN r.start_sentence ELSE 0,
                        !.pc = "sent"])
    /\ UNCHANGED << deviceVars, buffer_lock, artifact, document, configured, queue >>
    /\ UNCHANGED ctrlVars

\* lines 75-85 and 107-113: head of the sentence loop up to the update of
\* the live position, and the code after the loop
WorkerSentence(w) ==
    LET r == workers[w]
        d == sentence_data
        b == r.block_index
        s == r.sentence_index
    IN
    /\ isRunning(w) /\ r.pc = "sent"
    /\ IF s >= NumSentences(d, b)
       THEN IF StopRequested(w)
            THEN WSet(w, ToFinally([r EXCEPT !.start_sentence = 0],
            "cancelled"))
            ELSE WSet(w, [r EXCEPT !.start_sentence = 0,
                                   !.block_index = b + 1, !.pc = "block"])
       ELSE IF StopRequested(w)
            THEN WSet(w, ToFinally(r, "cancelled"))
            ELSE WSet(w, [r EXCEPT !.current_playback_position = <<b, s>>,
                                   !.pc = "emit"])
    /\ UNCHANGED << deviceVars, buffer_lock, artifact, document, configured, queue >>
    /\ UNCHANGED ctrlVars

\* line 88: sentence_started.emit(block_index, sentence_index)
WorkerEmitStarted(w) ==
    LET r == workers[w]
        k == << r.block_index, r.sentence_index >>
    IN
    /\ isRunning(w) /\ r.pc = "emit"
    /\ Len(queue) < MaxQueue
    /\ queue' = Append(queue, SignalEvent("sentence_started", w, k))
    /\ WSet(w, [r EXCEPT !.started = Append(r.started, k), !.pc = "fetch"])
    /\ UNCHANGED << deviceVars, buffer_lock, artifact, document, configured >>
    /\ UNCHANGED ctrlVars

\* lines 204-215: _get_audio_for_sentence, the buffered branch and the
\* decision to synthesize
WorkerFetch(w) ==
    LET r == workers[w]
        k == << r.block_index, r.sentence_index >>
    IN
    /\ isRunning(w) /\ r.pc = "fetch"
    /\ LockFor(w, "run")
    /\ IF k \in r.audio_buffer
       THEN WSet(w, [r EXCEPT !.audio_buffer = r.audio_buffer \ {k},
                              !.pc = "play"])
       ELSE WSet(w, [r EXCEPT !.pc = "synth"])
    /\ buffer_lock' = Unlocked(w)
    /\ UNCHANGED << deviceVars, artifact, document, configured, queue >>
    /\ UNCHANGED ctrlVars

\* lines 215, 222-314 and 93-95: the synchronous synthesis returns a path, or
\* None, on which run() returns without a signal
WorkerSynthesize(w) ==
    LET r == workers[w] IN
    /\ isRunning(w) /\ r.pc = "synth"
    /\ \E ok \in BOOLEAN :
         IF ok THEN WSet(w, [r EXCEPT !.pc = "play"])
               ELSE WSet(w, ToFinally(r, "failed"))
    /\ UNCHANGED << deviceVars, buffer_lock, artifact, document, configured, queue >>
    /\ UNCHANGED ctrlVars

\* lines 316-330, 344-346: _play_audio_file up to sd.play, which makes this
\* worker's audio the stream; reading the file or opening the device may
\* raise, which returns False
WorkerPlayStart(w) ==
    LET r == workers[w] IN
    /\ isRunning(w) /\ r.pc = "play"
    /\ \E ok \in BOOLEAN :
         IF ~ok THEN WSet(w, ToFinally(r, "failed")) /\ UNCHANGED stream
         ELSE IF StopRequested(w)
              THEN WSet(w, ToFinally(r, "cancelled")) /\ UNCHANGED stream
              ELSE WSet(w, [r EXCEPT !.pc = "playing"]) /\ stream' = w
    /\ UNCHANGED << test_pc, buffer_lock, artifact, document, configured, queue >>
    /\ UNCHANGED ctrlVars

\* lines 334-342 and 103-105: the polling loop ends because a flag is set,
\* which is followed by sd.stop(), or because sounddevice's stream is no
\* longer active: this worker's audio has ended, or the stream was stopped
WorkerPlaying(w) ==
    LET r == workers[w] IN
    /\ isRunning(w) /\ r.pc = "playing"
    /\ IF StopRequested(w)
       THEN WSet(w, ToFinally(r, "cancelled"))
       ELSE /\ stream \in { 0, w }
            /\ WSet(w, [r EXCEPT !.sentence_index = r.sentence_index + 1,
                                 !.pc = "sent"])
    /\ stream' = 0
    /\ UNCHANGED << test_pc, buffer_lock, artifact, document, configured, queue >>
    /\ UNCHANGED ctrlVars

\* line 118: finished.emit(); an event is posted only while the signal is
\* connected to on_speech_finished
WorkerEmitFinished(w) ==
    LET r == workers[w] IN
    /\ isRunning(w) /\ r.pc = "emit_finished"
    /\ IF r.finished_connected
       THEN /\ Len(queue) < MaxQueue
            /\ queue' = Append(queue, SignalEvent("finished", w, <<0, 0>>))
       ELSE queue' = queue
    /\ WSet(w, [ToFinally(r, "completed") EXCEPT
                  !.finished_emitted = r.finished_emitted + 1])
    /\ UNCHANGED << deviceVars, buffer_lock, artifact, document, configured >>
    /\ UNCHANGED ctrlVars

\* line 127: the finally clause sets the read-ahead stop flag
WorkerFinally(w) ==
    LET r == workers[w] IN
    /\ isRunning(w) /\ r.pc = "finally"
    /\ WSet(w, [r EXCEPT !.readahead_stop_flag = TRUE, !.pc = "join"])
    /\ UNCHANGED << deviceVars, buffer_lock, artifact, document, configured, queue >>
    /\ UNCHANGED ctrlVars

\* lines 128-132 and 355-364: join the read-ahead thread (1 s), then
\* _cleanup_audio_buffer; run() returns
WorkerCleanup(w) ==
    LET r == workers[w] IN
    /\ isRunning(w) /\ r.pc = "join"
    /\ \/ buffer_lock[w] = "run"
       \/ buffer_lock[w] = "free" /\ (~ReadaheadAlive(w) \/ r.rpc = "synth")
    /\ WSet(w, [ThreadGone(r) EXCEPT !.audio_buffer = {}, !.pc = "done",
                                      !.wstate = "finished"])
    /\ buffer_lock' = Unlocked(w)
    /\ UNCHANGED << deviceVars, artifact, document, configured, queue >>
    /\ UNCHANGED ctrlVars

(* --------------------- TTSWorker._readahead_worker --------------------- *)

\* the loop without its test of _readahead_stop_flag
ReadaheadLoop_NoStopTest(w) ==
    LET r == workers[w]
        p == r.current_playback_position
    IN
    /\ ReadaheadAlive(w) /\ r.rpc = "loop"
    /\ WSet(w, [r EXCEPT
          !.sentences_to_buffer =
              get_next_sentences(sentence_data, p[1], p[2], ReadAheadCount),
          !.rpc = "item"])
    /\ UNCHANGED << deviceVars, buffer_lock, artifact, document, configured, queue >>
    /\ UNCHANGED ctrlVars

\* lines 144-150: the loop test, the read of the live position and the list
\* of the next sentences
ReadaheadLoop(w) ==
    LET r == workers[w]
        p == r.current_playback_position
    IN
    /\ ReadaheadAlive(w) /\ r.rpc = "loop"
    /\ IF r.readahead_stop_flag
       THEN WSet(w, [r EXCEPT !.rstate = "done", !.rpc = "done"])
       ELSE WSet(w, [r EXCEPT
              !.sentences_to_buffer =
                  get_next_sentences(sentence_data, p[1], p[2], ReadAheadCount),
              !.rpc = "item"])
    /\ UNCHANGED << deviceVars, buffer_lock, artifact, document, configured, queue >>
    /\ UNCHANGED ctrlVars

\* lines 152-160 and 175: one turn of the for loop up to the synthesis call;
\* after the loop the thread sleeps and tests the flag again
ReadaheadItem(w) ==
    LET r == workers[w]
        l == r.sentences_to_buffer
    IN
    /\ ReadaheadAlive(w) /\ r.rpc = "item"
    /\ IF l = << >> \/ (r.readahead_stop_flag /\ buffer_lock[w] # "readahead")
       THEN /\ WSet(w, [r EXCEPT !.sentences_to_buffer = << >>,
                                 !.rpc = "loop"])
            /\ UNCHANGED buffer_lock
       ELSE /\ LockFor(w, "readahead")
            /\ IF Head(l) \in r.audio_buffer
               THEN WSet(w, [r EXCEPT !.sentences_to_buffer = Tail(l)])
               ELSE WSet(w, [r EXCEPT !.rpc = "synth"])
            /\ buffer_lock' = Unlocked(w)
    /\ UNCHANGED << deviceVars, artifact, document, configured, queue >>
    /\ UNCHANGED ctrlVars

\* the synthesis whose failure escapes the loop and ends the thread
ReadaheadSynthesize_FailureEndsThread(w) ==
    LET r == workers[w]
        l == r.sentences_to_buffer
    IN
    /\ ReadaheadAlive(w) /\ r.rpc = "synth"
    /\ \E ok \in BOOLEAN :
         /\ ok => LockFor(w, "readahead")
         /\ IF ok
            THEN WSet(w, [r EXCEPT
                   !.audio_buffer = r.audio_buffer \cup {Head(l)},
                   !.sentences_to_buffer = Tail(l),
                   !.rpc = "item"])
            ELSE WSet(w, [r EXCEPT !.rstate = "done", !.rpc = "done"])
         /\ buffer_lock' = IF ok THEN Unlocked(w) ELSE buffer_lock
    /\ UNCHANGED << deviceVars, artifact, document, configured, queue >>
    /\ UNCHANGED ctrlVars

\* lines 162-172: the synthesis returns; a path is put into the buffer, None
\* is dropped
ReadaheadSynthesize(w) ==
    LET r == workers[w]
        l == r.sentences_to_buffer
    IN
    /\ ReadaheadAlive(w) /\ r.rpc = "synth"
    /\ \E ok \in BOOLEAN :
         /\ ok => LockFor(w, "readahead")
         /\ WSet(w, [r EXCEPT
               !.audio_buffer = IF ok THEN r.audio_buffer \cup {Head(l)}
                                      ELSE r.audio_buffer,
               !.sentences_to_buffer = Tail(l),
               !.rpc = "item"])
         /\ buffer_lock' = IF ok THEN Unlocked(w) ELSE buffer_lock
    /\ UNCHANGED << deviceVars, artifact, document, configured, queue >>
    /\ UNCHANGED ctrlVars

(* ------------------- TTSManager: navigation targets -------------------- *)

\* navigate_to_next_sentence, lines 420-441: the values of (block_idx,
\* sent_idx) when the while loop ends
RECURSIVE NextSentenceLoop(_, _, _)
NextSentenceLoop(d, block_idx, sent_idx) ==
    IF block_idx >= NumBlocks(d) THEN << block_idx, sent_idx >>
    ELSE IF NumSentences(d, block_idx) = 0
         THEN NextSentenceLoop(d, block_idx + 1, 0)
    ELSE IF sent_idx + 1 < NumSentences(d, block_idx)
         THEN << block_idx, sent_idx + 1 >>
    ELSE IF block_idx + 1 < NumBlocks(d) /\ NumSentences(d, block_idx + 1) > 0
         THEN << block_idx + 1, 0 >>
    ELSE NextSentenceLoop(d, block_idx + 1, 0)

\* navigate_to_previous_sentence, lines 467-483
RECURSIVE PreviousSentenceLoop(_, _, _)
PreviousSentenceLoop(d, block_idx, sent_idx) ==
    IF block_idx < 0 THEN << block_idx, sent_idx >>
    ELSE IF sent_idx > 0
         THEN IF NumSentences(d, block_idx) > 0
              THEN << block_idx, sent_idx - 1 >>
              ELSE PreviousSentenceLoop(d, block_idx, sent_idx - 1)
    ELSE IF block_idx - 1 >= 0 /\ NumSentences(d, block_idx - 1) > 0
         THEN << block_idx - 1, NumSentences(d, block_idx - 1) - 1 >>
    ELSE PreviousSentenceLoop(d, block_idx - 1, sent_idx)

\* the test after the loop without its comparison with the number of blocks
FoundSentence_NoEndTest(d, k) == k[1] >= 0

\* lines 444-447 and 486-488: the loop ended on an existing sentence
FoundSentence(d, k) ==
    k[1] >= 0 /\ k[1] < NumBlocks(d) /\ NumSentences(d, k[1]) > 0

\* the blocks after the index's block, without the test for sentences
NextParagraphBlocks_WithEmpty(d, block_idx) ==
    block_idx + 1 .. NumBlocks(d) - 1

\* navigate_to_next_paragraph, lines 504-512: the blocks it may go to
NextParagraphBlocks(d, block_idx) ==
    { b \in block_idx + 1 .. NumBlocks(d) - 1 : NumSentences(d, b) > 0 }

\* navigate_to_previous_paragraph, lines 522-530
PreviousParagraphBlocks(d, block_idx) ==
    { b \in 0 .. block_idx - 1 : NumSentences(d, b) > 0 }

Min(S) == CHOOSE x \in S : \A y \in S : x <= y

Max(S) == CHOOSE x \in S : \A y \in S : x >= y

\* _extract_relevant_buffer_entries, lines 600-613: the keys it transfers
RelevantEntries(buffer, target) ==
    { k \in buffer :
        /\ Abs(k[1] - target[1]) <= RelevantBlockDistance
        /\ (Abs(k[1] - target[1]) = 0
              => Abs(k[2] - target[2]) <= RelevantSentenceDistance) }

\* _start_speaking_from_index, lines 629-632: the index names a sentence
IndexValid(d, k) ==
    ~ (k[1] >= NumBlocks(d) \/ k[2] >= NumSentences(d, k[1]))

\* _start_speaking_from_index, lines 634-724 and 781-784: the config is read
\* again and the tts object is built ("ok"), a path is missing and the
\* method returns False ("false"), or an exception is caught ("raise")
BackendOutcomes == { "ok", "false", "raise" }

(* ------------------------ TTSManager: handlers ------------------------- *)

Idle == cpc = "idle"

\* a manager method returns: what was called, what it returned, and for
\* stop_speech whether the call before it was a stop_speech as well
Returned(op, ret) ==
    last_call' = [ op |-> op, ret |-> ret,
                   again |-> op = "stop_speech" /\ last_call.op = op ]

\* TTSWorker.stop, lines 37-40: the three flags (the join is ControllerJoin)
SignalStop(ws, w) ==
    [ ws EXCEPT ![w].stop_requested = TRUE,
                ![w].stop_flag = TRUE,
                ![w].readahead_stop_flag = TRUE ]

\* finished.disconnect(self.on_speech_finished)
DisconnectFinished(ws, w) == [ ws EXCEPT ![w].finished_connected = FALSE ]

\* stop_speech without the test of is_speaking
StopGuard_NoSpeakingTest ==
    tts_worker # 0 /\ isRunning(tts_worker)

\* stop_speech, line 868
StopGuard ==
    is_speaking /\ tts_worker # 0 /\ isRunning(tts_worker)

\* stop_speech, lines 868-878, called by op (the stop button or toggle_speech)
StopSpeechBegin(op) ==
    IF StopGuard
    THEN /\ workers' = SignalStop(DisconnectFinished(workers, tts_worker),
                                  tts_worker)
         /\ cpc' = "join" /\ cop' = op
         /\ UNCHANGED << sentence_data, is_speaking, tts_worker, is_navigating,
                         tts_sentence_index, nav_target, preserved_buffer,
                         queue,
                         nextWorker, error_boxes, last_call >>
    ELSE /\ Returned(op, "none")
         /\ UNCHANGED << sentence_data, is_speaking, tts_worker, is_navigating,
                         tts_sentence_index, cpc, cop, nav_target,
                         preserved_buffer, queue,
                         workers, nextWorker, error_boxes >>

\* the stop button: ReadOnlyTTSWidget.stop_speech calls stop_speech
StopSpeech ==
    /\ Idle
    /\ StopSpeechBegin("stop_speech")
    /\ UNCHANGED << deviceVars, buffer_lock, artifact, document, configured >>

\* TTSWorker.stop, lines 43-44: join the read-ahead thread for at most 1 s
ControllerJoin ==
    /\ cpc = "join"
    /\ \/ ~ReadaheadAlive(tts_worker)
       \/ workers[tts_worker].rpc = "synth"
    /\ cpc' = "wait"
    /\ UNCHANGED << deviceVars, buffer_lock, artifact, document, configured,
                    sentence_data, is_speaking,
                    tts_worker, is_navigating, tts_sentence_index, cop,
                    nav_target, preserved_buffer, queue, workers, nextWorker,
                    error_boxes,
                    last_call >>

\* wait(timeout) returns because the thread ended, or it times out
WaitReturns(w) == ~isRunning(w) \/ workers[w].pc = "synth"

\* wait(timeout) whose timeout is not followed by terminate()
WaitOrTerminate_NoTerminate(ws, w) == ws

\* wait(timeout); on a timeout terminate() and wait again
WaitOrTerminate(ws, w) ==
    IF ws[w].wstate = "running"
    THEN [ ws EXCEPT ![w] = [ThreadGone(ws[w]) EXCEPT !.wstate = "terminated",
                                                       !.pc = "killed"] ]
    ELSE ws

\* stop_speech, lines 880-900
StopSpeechFinish ==
    /\ cpc = "wait" /\ cop \in { "stop_speech", "toggle_speech" }
    /\ WaitReturns(tts_worker)
    /\ workers' = WaitOrTerminate(workers, tts_worker)
    /\ tts_worker' = 0
    /\ is_speaking' = FALSE
    /\ is_navigating' = FALSE
    /\ cpc' = "idle" /\ cop' = "none"
    /\ Returned(cop, "none")
    /\ stream' = 0
    /\ UNCHANGED << test_pc, buffer_lock, artifact, document, configured, sentence_data,
                    tts_sentence_index, nav_target, preserved_buffer, queue,
                    nextWorker, error_boxes >>

\* _start_speaking_from_index creating the TTSWorker without start_block and
\* start_sentence, which default to 0
CreateSession_FromFirst(ws, inherited, navigating) ==
    /\ nextWorker' = nextWorker + 1
    /\ workers' = [ ws EXCEPT ![nextWorker + 1] =
                        NewWorker(<< 0, 0 >>, inherited) ]
    /\ tts_worker' = nextWorker + 1
    /\ is_speaking' = TRUE
    /\ queue' = IF navigating THEN Append(queue, TimerEvent) ELSE queue

\* _start_speaking_from_index, lines 748-779: a new TTSWorker on the current
\* index with the inherited buffer, started; the timer that clears
\* _is_navigating is armed when the flag is set
CreateSession(ws, inherited, navigating) ==
    /\ nextWorker' = nextWorker + 1
    /\ workers' = [ ws EXCEPT ![nextWorker + 1] =
                        NewWorker(tts_sentence_index', inherited) ]
    /\ tts_worker' = nextWorker + 1
    /\ is_speaking' = TRUE
    /\ queue' = IF navigating THEN Append(queue, TimerEvent) ELSE queue

\* _start_speaking_from_index returns False: line 632, or the paths of
\* lines 634-724, or the handler of lines 781-784
StartFails(ws, worker, d, outcome) ==
    /\ nextWorker' = nextWorker
    /\ workers' = ws
    /\ tts_worker' = worker
    /\ is_speaking' =
         IF IndexValid(d, tts_sentence_index') /\ outcome = "raise"
         THEN FALSE ELSE is_speaking
    /\ queue' = queue

(* navigation *)

\* TTSWorker._check_if_sentence_in_buffer, lines 217-220
check_if_sentence_in_buffer(w, k) == k \in workers[w].audio_buffer

\* set_sentence_index and _navigate_to_sentence, lines 537-543: the guard
\* and the look into the buffer for the target
NavigateBegin(target) ==
    /\ tts_sentence_index' = target
    /\ IF ~is_speaking \/ tts_worker = 0
       THEN /\ Returned("navigate", FALSE)
            /\ UNCHANGED << cpc, cop, nav_target >>
       ELSE /\ LockFor(tts_worker, "gui")
            /\ cop' = "navigate"
            /\ nav_target' = target
            /\ cpc' = IF check_if_sentence_in_buffer(tts_worker, target)
                      THEN "nav_extract" ELSE "nav_stop"
            /\ UNCHANGED last_call
    /\ UNCHANGED << deviceVars, buffer_lock, artifact, document, configured,
                    sentence_data, is_speaking,
                    tts_worker, is_navigating, preserved_buffer, queue,
                    workers, nextWorker, error_boxes >>

\* the early return without its test of is_speaking
NavigateEarlyReturn_NoSpeakingTest == sentence_data = << >>

\* lines 412-414, 461-462, 498-499, 516-517, 1074-1075
NavigateEarlyReturn == sentence_data = << >> \/ ~is_speaking

\* the GUI thread is free to run a navigation helper
NavigateAllowed ==
    /\ Idle
    /\ nextWorker < MaxWorkers

\* a navigation helper found no target and returns False
NavigateNoTarget ==
    /\ Returned("navigate", FALSE)
    /\ UNCHANGED << deviceVars, buffer_lock, artifact, document, configured,
                    sentence_data, is_speaking,
                    tts_worker, is_navigating, tts_sentence_index, cpc, cop,
                    nav_target, preserved_buffer, queue, workers, nextWorker,
                    error_boxes >>

\* navigate_to_next_sentence, lines 406-457
navigate_to_next_sentence ==
    IF NavigateEarlyReturn THEN NavigateNoTarget
    ELSE LET k == NextSentenceLoop(sentence_data, tts_sentence_index[1],
                                   tts_sentence_index[2])
         IN IF FoundSentence(sentence_data, k)
            THEN NavigateBegin(k) ELSE NavigateNoTarget

\* the next-sentence key pressed while the GUI thread is free
NavigateNextSentence ==
    /\ NavigateAllowed
    /\ navigate_to_next_sentence

\* navigate_to_previous_sentence, lines 459-494
NavigatePreviousSentence ==
    /\ NavigateAllowed
    /\ IF NavigateEarlyReturn THEN NavigateNoTarget
       ELSE LET k == PreviousSentenceLoop(sentence_data, tts_sentence_index[1],
                                          tts_sentence_index[2])
            IN IF FoundSentence(sentence_data, k)
               THEN NavigateBegin(k) ELSE NavigateNoTarget

\* navigate_to_next_paragraph, lines 496-512
NavigateNextParagraph ==
    /\ NavigateAllowed
    /\ IF NavigateEarlyReturn THEN NavigateNoTarget
       ELSE LET bs == NextParagraphBlocks(sentence_data, tts_sentence_index[1])
            IN IF bs # {} THEN NavigateBegin(<< Min(bs), 0 >>)
                          ELSE NavigateNoTarget

\* navigate_to_previous_paragraph, lines 514-530
NavigatePreviousParagraph ==
    /\ NavigateAllowed
    /\ IF NavigateEarlyReturn THEN NavigateNoTarget
       ELSE LET bs == PreviousParagraphBlocks(sentence_data,
                                              tts_sentence_index[1])
            IN IF bs # {} THEN NavigateBegin(<< Max(bs), 0 >>)
                          ELSE NavigateNoTarget

\* navigate_to_first_sentence, lines 1072-1081
NavigateFirstSentence ==
    /\ NavigateAllowed
    /\ IF NavigateEarlyReturn THEN NavigateNoTarget
       ELSE NavigateBegin(<< 0, 0 >>)

\* _navigate_to_sentence, lines 547-550, and _extract_relevant_buffer_entries
NavigateExtract ==
    /\ cpc = "nav_extract"
    /\ LockFor(tts_worker, "gui")
    /\ buffer_lock' = Unlocked(tts_worker)
    /\ LET buf == workers[tts_worker].audio_buffer
           ext == RelevantEntries(buf, nav_target)
       IN /\ preserved_buffer' = ext
          /\ workers' = [ workers EXCEPT
                           ![tts_worker].audio_buffer = buf \ ext ]
    /\ cpc' = "nav_stop"
    /\ UNCHANGED nav_target
    /\ UNCHANGED << deviceVars, artifact, document, configured,
                    sentence_data, is_speaking,
                    tts_worker, is_navigating, tts_sentence_index, cop, queue,
                    nextWorker, error_boxes, last_call >>

\* _navigate_to_sentence, lines 552-563: the flag, the disconnect, stop()
NavigateStop ==
    /\ cpc = "nav_stop"
    /\ is_navigating' = TRUE
    /\ workers' = SignalStop(DisconnectFinished(workers, tts_worker),
                             tts_worker)
    /\ cpc' = "join"
    /\ UNCHANGED << deviceVars, buffer_lock, artifact, document, configured,
                    sentence_data, is_speaking,
                    tts_worker, tts_sentence_index, cop, nav_target,
                    preserved_buffer,
                    queue, nextWorker, error_boxes, last_call >>

\* _navigate_to_sentence, lines 565-588, and _start_speaking_from_index
NavigateFinish ==
    /\ cpc = "wait" /\ cop = "navigate"
    /\ WaitReturns(tts_worker)
    /\ UNCHANGED tts_sentence_index
    /\ \E outcome \in BackendOutcomes :
         LET ws == WaitOrTerminate(workers, tts_worker) IN
         IF IndexValid(sentence_data, tts_sentence_index) /\ outcome = "ok"
         THEN /\ CreateSession(ws, preserved_buffer, is_navigating)
              /\ Returned("navigate", TRUE)
         ELSE /\ StartFails(ws, 0, sentence_data, outcome)
              /\ Returned("navigate", FALSE)
    /\ cpc' = "idle" /\ cop' = "none"
    /\ preserved_buffer' = {}
    /\ nav_target' = << 0, 0 >>
    /\ stream' = 0
    /\ UNCHANGED << test_pc, buffer_lock, artifact, document, configured, sentence_data,
                    is_navigating, error_boxes >>

(* start *)

\* toggle_speech finding a configuration whatever the config holds
ConfigMissing_Never == FALSE

\* toggle_speech, lines 803-829: the config, the engine or its voice is missing
ConfigMissing == ~configured

\* toggle_speech, lines 796-860, and _start_speaking_from_index up to the
\* handling of a worker that still exists (lines 736-741), of a manager
\* whose index the caller has set to index
StartSpeech(index) ==
    /\ tts_sentence_index' = index
    /\ UNCHANGED << nav_target, preserved_buffer, error_boxes >>
    /\ IF ConfigMissing
       THEN /\ Returned("toggle_speech", "none")
            /\ UNCHANGED << sentence_data, is_speaking, tts_worker,
                            is_navigating, cpc, cop, queue, workers,
                            nextWorker >>
       ELSE
       /\ sentence_data' = document
       /\ IF TotalSentences(document) = 0
          THEN /\ Returned("toggle_speech", "none")
               /\ UNCHANGED << is_speaking, tts_worker, is_navigating, cpc,
                               cop, queue, workers, nextWorker >>
          ELSE
          /\ is_navigating' = FALSE
          /\ \E outcome \in BackendOutcomes :
               IF ~(IndexValid(document, index) /\ outcome = "ok")
               THEN /\ StartFails(workers, tts_worker, document, outcome)
                    /\ Returned("toggle_speech", "none")
                    /\ UNCHANGED << cpc, cop >>
               ELSE IF tts_worker # 0 /\ isRunning(tts_worker)
               THEN /\ workers' = SignalStop(workers, tts_worker)
                    /\ cpc' = "join" /\ cop' = "start"
                    /\ UNCHANGED << is_speaking, tts_worker, queue,
                                    nextWorker, last_call >>
               ELSE /\ CreateSession(workers, {}, FALSE)
                    /\ Returned("toggle_speech", "none")
                    /\ UNCHANGED << cpc, cop >>

\* toggle_speech, lines 786-864
ToggleSpeech ==
    /\ Idle
    /\ IF is_speaking
       THEN StopSpeechBegin("toggle_speech")
       ELSE nextWorker < MaxWorkers /\ StartSpeech(tts_sentence_index)
    /\ UNCHANGED << deviceVars, buffer_lock, artifact, document, configured >>

\* ReadOnlyTTSWidget, a double click or a heading key while the manager is
\* stopped: set_sentence_index on a sentence of the document, toggle_speech
StartFromSentence ==
    /\ Idle
    /\ ~is_speaking
    /\ nextWorker < MaxWorkers
    /\ \E k \in SentenceKeys(document) : StartSpeech(k)
    /\ UNCHANGED << deviceVars, buffer_lock, artifact, document, configured >>

\* _start_speaking_from_index, lines 741-779, after stop() of the old worker
StartFinish ==
    /\ cpc = "wait" /\ cop = "start"
    /\ WaitReturns(tts_worker)
    /\ UNCHANGED tts_sentence_index
    /\ CreateSession(WaitOrTerminate(workers, tts_worker), {}, is_navigating)
    /\ Returned("toggle_speech", "none")
    /\ cpc' = "idle" /\ cop' = "none"
    /\ UNCHANGED << deviceVars, buffer_lock, artifact, document, configured,
                    sentence_data, is_navigating,
                    nav_target, preserved_buffer, error_boxes >>

(* events delivered to the manager *)

Signals(q) == { i \in 1 .. Len(q) : q[i].type # "timer" }

RemoveAt(q, i) == SubSeq(q, 1, i - 1) \o SubSeq(q, i + 1, Len(q))

\* the event the GUI thread's event loop hands to a slot next
NextSignal(t) ==
    /\ Idle
    /\ Signals(queue) # {}
    /\ queue[Min(Signals(queue))].type = t
    /\ queue' = RemoveAt(queue, Min(Signals(queue)))

\* on_speech_finished, lines 902-944
on_speech_finished ==
    /\ NextSignal("finished")
    /\ is_speaking' = IF is_navigating THEN is_speaking ELSE FALSE
    /\ UNCHANGED << deviceVars, buffer_lock, artifact, document, configured,
                    sentence_data, tts_worker,
                    is_navigating, tts_sentence_index, cpc, cop,
                    nav_target, preserved_buffer, workers, nextWorker,
                    error_boxes,
                    last_call >>

\* on_speech_error, lines 946-950
on_speech_error ==
    /\ NextSignal("error")
    /\ is_speaking' = FALSE
    /\ error_boxes' =
         [ error_boxes EXCEPT ![queue[Min(Signals(queue))].w] = @ + 1 ]
    /\ UNCHANGED << deviceVars, buffer_lock, artifact, document, configured,
                    sentence_data, tts_worker,
                    is_navigating, tts_sentence_index, cpc, cop,
                    nav_target, preserved_buffer, workers, nextWorker,
                    last_call >>

\* highlight_current_sentence, lines 952-959, of a manager that has a
\* text_edit (the rest only paints)
highlight_current_sentence ==
    /\ NextSignal("sentence_started")
    /\ tts_sentence_index' = queue[Min(Signals(queue))].key
    /\ UNCHANGED << deviceVars, buffer_lock, artifact, document, configured,
                    sentence_data, is_speaking,
                    tts_worker, is_navigating, cpc, cop, nav_target,
                    preserved_buffer,
                    workers, nextWorker, error_boxes, last_call >>

\* line 777: the single-shot timer's lambda clears _is_navigating
NavigatingTimer ==
    /\ Idle
    /\ queue # << >> /\ Head(queue).type = "timer"
    /\ queue' = Tail(queue)
    /\ is_navigating' = FALSE
    /\ UNCHANGED << deviceVars, buffer_lock, artifact, document, configured,
                    sentence_data, is_speaking,
                    tts_worker, tts_sentence_index, cpc, cop, nav_target,
                    preserved_buffer,
                    workers, nextWorker, error_boxes, last_call >>

(* --------------------------- specification ----------------------------- *)

\* sounddevice plays nothing, the settings dialog has run no voice test and
\* no synthesis has written a file
InitDevice ==
    /\ stream = 0
    /\ test_pc = "none"
    /\ artifact = [ stage |-> "none", response |-> << >>, bytes |-> << >> ]

\* TTSManager.__init__, lines 378-390
InitManager ==
    /\ sentence_data = << >>
    /\ is_speaking = FALSE
    /\ tts_worker = 0
    /\ is_navigating = FALSE
    /\ tts_sentence_index = << 0, 0 >>
    /\ cpc = "idle" /\ cop = "none"
    /\ nav_target = << 0, 0 >>
    /\ preserved_buffer = {}
    /\ queue = << >>
    /\ workers = [ w \in WorkerIds |-> NoWorker ]
    /\ buffer_lock = [ w \in WorkerIds |-> "free" ]
    /\ nextWorker = 0
    /\ error_boxes = [ w \in WorkerIds |-> 0 ]
    /\ last_call = [ op |-> "none", ret |-> "none", again |-> FALSE ]

\* a manager constructed over any of the documents, with or without a backend
Init ==
    /\ document \in Documents
    /\ configured \in BOOLEAN
    /\ InitManager
    /\ InitDevice

WorkerStep ==
    \E w \in WorkerIds :
        \/ WorkerStartReadahead(w)
        \/ WorkerStartFails(w)
        \/ WorkerBlock(w)
        \/ WorkerSentence(w)
        \/ WorkerEmitStarted(w)
        \/ WorkerFetch(w)
        \/ WorkerSynthesize(w)
        \/ WorkerPlayStart(w)
        \/ WorkerPlaying(w)
        \/ WorkerEmitFinished(w)
        \/ WorkerFinally(w)
        \/ WorkerCleanup(w)

ReadaheadStep ==
    \E w \in WorkerIds :
        \/ ReadaheadLoop(w)
        \/ ReadaheadItem(w)
        \/ ReadaheadSynthesize(w)

Next ==
    \/ ToggleSpeech
    \/ StartFromSentence
    \/ StopSpeech
    \/ ControllerJoin
    \/ StopSpeechFinish
    \/ StartFinish
    \/ NavigateNextSentence
    \/ NavigatePreviousSentence
    \/ NavigateNextParagraph
    \/ NavigatePreviousParagraph
    \/ NavigateFirstSentence
    \/ NavigateExtract
    \/ NavigateStop
    \/ NavigateFinish
    \/ on_speech_finished
    \/ on_speech_error
    \/ highlight_current_sentence
    \/ NavigatingTimer
    \/ WorkerStep
    \/ ReadaheadStep

Spec == Init /\ [][Next]_vars

(* ---------------- sentence navigation over an empty block -------------- *)

\* a document whose empty block lies between two blocks with sentences
NavigateDocument == << 1, 0, 2 >>

\* a manager constructed over that document, with a backend
InitNavigate ==
    /\ document = NavigateDocument
    /\ configured = TRUE
    /\ InitManager
    /\ InitDevice

\* the play button and the two sentence keys of the reader
NextNavigate ==
    \/ ToggleSpeech
    \/ ControllerJoin
    \/ StopSpeechFinish
    \/ NavigateNextSentence
    \/ NavigatePreviousSentence
    \/ NavigateExtract
    \/ NavigateStop
    \/ NavigateFinish
    \/ on_speech_finished
    \/ on_speech_error
    \/ highlight_current_sentence
    \/ NavigatingTimer
    \/ WorkerStep
    \/ ReadaheadStep

SpecNavigate == InitNavigate /\ [][NextNavigate]_vars

(* ------------------- read-ahead over a long block ---------------------- *)

\* a document with more sentences than the read-ahead depth plus one
ReadAheadDocument == << 7 >>

\* number of sessions a behaviour of the read-ahead specification may start
ReadAheadSessions == 1

\* a manager constructed over that document, with a backend
InitReadAhead ==
    /\ document = ReadAheadDocument
    /\ configured = TRUE
    /\ InitManager
    /\ InitDevice

\* the play button, the worker and its read-ahead thread
NextReadAhead ==
    \/ ToggleSpeech /\ nextWorker' <= ReadAheadSessions
    \/ ControllerJoin
    \/ StopSpeechFinish
    \/ on_speech_finished
    \/ on_speech_error
    \/ highlight_current_sentence
    \/ WorkerStep
    \/ ReadaheadStep

SpecReadAhead == InitReadAhead /\ [][NextReadAhead]_vars

(* ---------------- a navigation on top of a navigation ----------------- *)

\* a document whose read-ahead holds the two sentences after the first
RenavigateDocument == << 3 >>

\* a manager constructed over that document, with a backend
InitRenavigate ==
    /\ document = RenavigateDocument
    /\ configured = TRUE
    /\ InitManager
    /\ InitDevice

\* the play button pressed on the stopped manager
StartByToggle == ToggleSpeech /\ nextWorker = 0

\* the next-sentence key pressed on any session, the last one included
RenavigateNextSentence == Idle /\ navigate_to_next_sentence

\* the restart of a navigation while a worker is left to create
RenavigateFinish == NavigateFinish /\ nextWorker' <= MaxWorkers

\* one session started by the play button and the next-sentence key pressed
\* again and again
NextRenavigate ==
    \/ StartByToggle
    \/ RenavigateNextSentence
    \/ NavigateExtract
    \/ NavigateStop
    \/ ControllerJoin
    \/ RenavigateFinish
    \/ on_speech_finished
    \/ on_speech_error
    \/ highlight_current_sentence
    \/ NavigatingTimer
    \/ WorkerStep
    \/ ReadaheadStep

SpecRenavigate == InitRenavigate /\ [][NextRenavigate]_vars

(* ------------------- cancellation under fair threads ------------------ *)

\* a document with a sentence for the read-ahead thread to synthesize
CancelDocument == << 2 >>

\* a manager constructed over that document, with a backend
InitCancel ==
    /\ document = CancelDocument
    /\ configured = TRUE
    /\ InitManager
    /\ InitDevice

\* one session started by the play button, the stop button, the worker and
\* its read-ahead thread
NextCancel ==
    \/ StartByToggle
    \/ StopSpeech
    \/ ControllerJoin
    \/ StopSpeechFinish
    \/ on_speech_finished
    \/ on_speech_error
    \/ highlight_current_sentence
    \/ WorkerStep
    \/ ReadaheadStep

\* the operating system schedules every thread that can take a step: run()
\* and the read-ahead loop go on, so every synthesis call and every poll of
\* the device returns; nothing is assumed of the user or of the GUI thread
SpecCancel ==
    /\ InitCancel
    /\ [][NextCancel]_vars
    /\ WF_vars(WorkerStep)
    /\ WF_vars(ReadaheadStep)

(* ------------------------- the buffer lock ----------------------------- *)

\* the with-block of _get_audio_for_sentence drawn around the synthesis too
AtLockedSection_AroundSynthesis(w, t) ==
    LET r == workers[w] IN
    \/ /\ t = "run" /\ isRunning(w)
       /\ \/ r.pc \in { "fetch", "synth" }
          \/ r.pc = "join" /\ (~ReadaheadAlive(w) \/ r.rpc = "synth")
    \/ /\ t = "readahead" /\ ReadaheadAlive(w)
       /\ r.rpc = "item"
       /\ r.sentences_to_buffer # << >> /\ ~r.readahead_stop_flag
    \/ /\ t = "gui" /\ w = tts_worker
       /\ cpc = "nav_extract"

\* thread t stands before a with-block on worker w's lock: run() at line 207
\* or, the join of line 129 over, at line 357; the read-ahead thread at
\* line 158, past the flag test of line 154; the GUI thread at line 598
AtLockedSection(w, t) ==
    LET r == workers[w] IN
    \/ /\ t = "run" /\ isRunning(w)
       /\ \/ r.pc = "fetch"
          \/ r.pc = "join" /\ (~ReadaheadAlive(w) \/ r.rpc = "synth")
    \/ /\ t = "readahead" /\ ReadaheadAlive(w)
       /\ r.rpc = "item"
       /\ r.sentences_to_buffer # << >> /\ ~r.readahead_stop_flag
    \/ /\ t = "gui" /\ w = tts_worker
       /\ cpc = "nav_extract"

\* a thread takes the free lock and is inside the with-block; the step that
\* follows is the block's body, which ends with the release
EnterBufferLock(w, t) ==
    /\ buffer_lock[w] = "free"
    /\ AtLockedSection(w, t)
    /\ buffer_lock' = [ buffer_lock EXCEPT ![w] = t ]
    /\ UNCHANGED << deviceVars, artifact, document, configured, queue, workers >>
    /\ UNCHANGED ctrlVars

LockStep == \E w \in WorkerIds : \E t \in LockThreads : EnterBufferLock(w, t)

\* a document with a sentence to read ahead and to navigate to
LockDocument == << 2 >>

\* a manager constructed over that document, with a backend
InitLock ==
    /\ document = LockDocument
    /\ configured = TRUE
    /\ InitManager
    /\ InitDevice

\* a session and its navigations, the threads seen inside their with-blocks
NextLock ==
    \/ StartByToggle
    \/ NavigateNextSentence
    \/ NavigateFirstSentence
    \/ NavigateExtract
    \/ NavigateStop
    \/ ControllerJoin
    \/ NavigateFinish
    \/ on_speech_finished
    \/ on_speech_error
    \/ highlight_current_sentence
    \/ NavigatingTimer
    \/ WorkerStep
    \/ ReadaheadStep
    \/ LockStep

SpecLock == InitLock /\ [][NextLock]_vars

(* ------------- read-ahead across blocks and an empty block ------------- *)

\* a document whose sentences after the second one are more than the
\* read-ahead depth and lie beyond an empty block
CrossBlockDocument == << 3, 0, 5 >>

\* a manager constructed over that document, with a backend
InitCrossBlock ==
    /\ document = CrossBlockDocument
    /\ configured = TRUE
    /\ InitManager
    /\ InitDevice

\* one session read to its end or stopped, under the same steps as the
\* read-ahead specification
SpecCrossBlock == InitCrossBlock /\ [][NextReadAhead]_vars

(* ------------------ the settings dialog's voice test ------------------- *)

\* the voice test's worker as the owner of the stream
VoiceTestId == MaxWorkers + 1

\* the worker thread of the test manager runs: TTSWorker.run up to the
\* synthesis ("synth"), before sd.play ("play"), in the polling loop
\* ("playing")
VoiceTestRunning == test_pc \in { "synth", "play", "playing" }

\* stop_speech of the test manager, lines 868-888: a running worker is
\* stopped, waited for and at need terminated, then sd.stop() stops the
\* stream, whose ever audio it plays
StreamAfterVoiceTestStop == IF VoiceTestRunning THEN 0 ELSE stream

\* _play_voice_test: _stop_voice_test, then a new TTSManager without a
\* text_edit over one sentence and _start_speaking_from_index
PlayVoiceTest ==
    /\ Idle
    /\ \E outcome \in BackendOutcomes :
         test_pc' = IF outcome = "ok" THEN "synth" ELSE "none"
    /\ stream' = StreamAfterVoiceTestStop
    /\ UNCHANGED << buffer_lock, artifact, document, configured, queue, workers >>
    /\ UNCHANGED ctrlVars

\* _stop_voice_test: stop_speech of the test manager, which is dropped
StopVoiceTest ==
    /\ Idle
    /\ test_pc # "none"
    /\ test_pc' = "none"
    /\ stream' = StreamAfterVoiceTestStop
    /\ UNCHANGED << buffer_lock, artifact, document, configured, queue, workers >>
    /\ UNCHANGED ctrlVars

\* the test worker's synthesis returns a path, or None, which ends run()
VoiceTestSynthesize ==
    /\ test_pc = "synth"
    /\ \E ok \in BOOLEAN : test_pc' = IF ok THEN "play" ELSE "done"
    /\ UNCHANGED << stream, buffer_lock, artifact, document, configured, queue, workers >>
    /\ UNCHANGED ctrlVars

\* the test worker's _play_audio_file up to sd.play: its tts object's own
\* _audio_device_lock is free, and its audio becomes the stream
VoiceTestPlayStart ==
    /\ test_pc = "play"
    /\ \E ok \in BOOLEAN :
         IF ok THEN test_pc' = "playing" /\ stream' = VoiceTestId
               ELSE test_pc' = "done" /\ stream' = stream
    /\ UNCHANGED << buffer_lock, artifact, document, configured, queue, workers >>
    /\ UNCHANGED ctrlVars

\* the test worker's polling loop ends because the stream is not active
VoiceTestPlaying ==
    /\ test_pc = "playing"
    /\ stream \in { 0, VoiceTestId }
    /\ test_pc' = "done"
    /\ stream' = 0
    /\ UNCHANGED << buffer_lock, artifact, document, configured, queue, workers >>
    /\ UNCHANGED ctrlVars

VoiceTestStep ==
    \/ PlayVoiceTest
    \/ StopVoiceTest
    \/ VoiceTestSynthesize
    \/ VoiceTestPlayStart
    \/ VoiceTestPlaying

\* the document the reader speaks while the settings dialog is used
DeviceDocument == << 2 >>

\* number of sessions of the reader in a behaviour with the voice test
DeviceSessions == 1

\* a manager constructed over that document, with a backend
InitWithVoiceTest ==
    /\ document = DeviceDocument
    /\ configured = TRUE
    /\ InitManager
    /\ InitDevice

\* the reader's play button, its worker, and the voice test
NextWithVoiceTest ==
    \/ ToggleSpeech /\ nextWorker' <= DeviceSessions
    \/ ControllerJoin
    \/ StopSpeechFinish
    \/ on_speech_finished
    \/ on_speech_error
    \/ highlight_current_sentence
    \/ WorkerStep
    \/ ReadaheadStep
    \/ VoiceTestStep

SpecWithVoiceTest == InitWithVoiceTest /\ [][NextWithVoiceTest]_vars

(* ------------------ the header of a Kokoro artifact -------------------- *)

\* the four-character codes _fix_wav_header compares, as bytes
TagRIFF == << 82, 73, 70, 70 >>
TagWAVE == << 87, 65, 86, 69 >>
Tagdata == << 100, 97, 116, 97 >>

\* codes a response may carry instead, or besides
TagRIFX == << 82, 73, 70, 88 >>
TagAVI == << 65, 86, 73, 32 >>
Tagfmt == << 102, 109, 116, 32 >>
TagLIST == << 76, 73, 83, 84 >>

\* the size a streamed container announces when its length is not yet known
StreamingSize == << 255, 255, 255, 255 >>

\* struct.pack('<I', n), for the sizes of a file of the model
Pack32(n) ==
    << n % 256, (n \div 256) % 256, (n \div 65536) % 256,
       (n \div 16777216) % 256 >>

\* a declared size no file of the model is long enough to hold
FarSize == 65536

\* struct.unpack('<I') of a size field; the scan only seeks by it, and a
\* seek by 2^16 or more ends past the end of every file of the model
Unpack32(s) ==
    IF s[3] # 0 \/ s[4] # 0 THEN FarSize ELSE s[1] + 256 * s[2]

\* f.seek(pos) and f.read(n): what is left of the file, n bytes at most
ReadAt(bytes, pos, n) ==
    IF pos >= Len(bytes) THEN << >>
    ELSE SubSeq(bytes, pos + 1,
                IF pos + n < Len(bytes) THEN pos + n ELSE Len(bytes))

\* f.seek(pos) and f.write(w) on a file opened "r+b"
WriteAt(bytes, pos, w) ==
    LET end == IF pos + Len(w) > Len(bytes) THEN pos + Len(w) ELSE Len(bytes)
    IN  [ i \in 1 .. end |->
            IF i \in pos + 1 .. pos + Len(w) THEN w[i - pos]
            ELSE IF i <= Len(bytes) THEN bytes[i] ELSE 0 ]

NoDataChunk == -1

\* the scan of lines 204-213: the position of the first chunk header, from
\* pos on, whose id is 'data', each other chunk skipped by its declared size
RECURSIVE ScanForData(_, _)
ScanForData(bytes, pos) ==
    LET chunk_header == ReadAt(bytes, pos, 8) IN
    IF Len(chunk_header) < 8 THEN NoDataChunk
    ELSE IF SubSeq(chunk_header, 1, 4) = Tagdata THEN pos
    ELSE ScanForData(bytes,
                     pos + 8 + Unpack32(SubSeq(chunk_header, 5, 8)))

\* the patch that leaves the data chunk's size as the response had it
PatchSizes_RiffOnly(bytes, data_chunk_pos) ==
    WriteAt(bytes, 4, Pack32(Len(bytes) - 8))

\* lines 215-224: both size fields written from the file's length
PatchSizes(bytes, data_chunk_pos) ==
    LET file_size == Len(bytes)
        data_size == file_size - (data_chunk_pos + 8)
    IN  WriteAt(WriteAt(bytes, 4, Pack32(file_size - 8)),
                data_chunk_pos + 4, Pack32(data_size))

\* KokoroTTS._fix_wav_header: the file after the call, or the ValueError
fix_wav_header(bytes) ==
    LET riff == ReadAt(bytes, 0, 12) IN
    IF ReadAt(riff, 0, 4) # TagRIFF \/ ReadAt(riff, 8, 4) # TagWAVE
    THEN [ raised |-> TRUE, bytes |-> bytes ]
    ELSE LET data_chunk_pos == ScanForData(bytes, 12) IN
         IF data_chunk_pos = NoDataChunk
         THEN [ raised |-> TRUE, bytes |-> bytes ]
         ELSE [ raised |-> FALSE,
                bytes |-> PatchSizes(bytes, data_chunk_pos) ]

\* the first twelve bytes a response may start with
ResponseHeaders ==
    { m \o s \o f : m \in { TagRIFF, TagRIFX },
                    s \in { Pack32(0), StreamingSize },
                    f \in { TagWAVE, TagAVI } }

\* a chunk of a response: its id, the size it declares (right, one too many,
\* or the streaming size) and its payload
ResponseChunks ==
    UNION { { id \o s \o [ i \in 1 .. n |-> 0 ] :
              id \in { Tagfmt, Tagdata, TagLIST },
              s \in { Pack32(n), Pack32(n + 1), StreamingSize } } :
            n \in 0 .. MaxPayload }

RECURSIVE ChunkSeqs(_)
ChunkSeqs(k) ==
    IF k = 0 THEN { << >> }
    ELSE LET S == ChunkSeqs(k - 1)
         IN  S \cup { s \o c : s \in S, c \in ResponseChunks }

\* a file synthesize_speech may leave: a header, some chunks, and the stream
\* cut t bytes before its end
KokoroResponse(h, b, t) == SubSeq(h \o b, 1, Len(h \o b) - t)

\* tts_manager line 232 (kokoro_manager line 296): synthesize_speech has
\* written the response to a temporary file
KokoroSynthesize ==
    /\ artifact.stage = "none"
    /\ \E h \in ResponseHeaders, b \in ChunkSeqs(MaxChunks),
          t \in 0 .. MaxTruncate :
         LET f == KokoroResponse(h, b, t) IN
         artifact' = [ stage |-> "written", response |-> f, bytes |-> f ]
    /\ UNCHANGED << deviceVars, buffer_lock, document, configured, queue,
                    workers >>
    /\ UNCHANGED ctrlVars

\* line 234 (298): the header fix, whose ValueError the except of line 308
\* catches
FixWavHeader ==
    /\ artifact.stage = "written"
    /\ LET fixed == fix_wav_header(artifact.bytes) IN
       artifact' = [ artifact EXCEPT
                       !.stage = IF fixed.raised THEN "raised" ELSE "patched",
                       !.bytes = fixed.bytes ]
    /\ UNCHANGED << deviceVars, buffer_lock, document, configured, queue,
                    workers >>
    /\ UNCHANGED ctrlVars

\* line 271: soundfile reads the file, or fails on it
ReadArtifact ==
    /\ artifact.stage = "patched"
    /\ \E ok \in BOOLEAN :
         artifact' = [ artifact EXCEPT
                         !.stage = IF ok THEN "read" ELSE "raised" ]
    /\ UNCHANGED << deviceVars, buffer_lock, document, configured, queue,
                    workers >>
    /\ UNCHANGED ctrlVars

\* lines 275-304, a speed other than 1.0: _speed_adjust_audio reads the file
\* again and stretches it, or raises
SpeedAdjust ==
    /\ artifact.stage = "read"
    /\ \E ok \in BOOLEAN :
         artifact' = [ artifact EXCEPT
                         !.stage = IF ok THEN "adjusted" ELSE "raised" ]
    /\ UNCHANGED << deviceVars, buffer_lock, document, configured, queue,
                    workers >>
    /\ UNCHANGED ctrlVars

\* lines 304-306: the path goes back to the caller, which buffers or plays it
ReturnArtifact ==
    /\ artifact.stage \in { "read", "adjusted" }
    /\ artifact' = [ artifact EXCEPT !.stage = "returned" ]
    /\ UNCHANGED << deviceVars, buffer_lock, document, configured, queue,
                    workers >>
    /\ UNCHANGED ctrlVars

\* lines 308-314: the files are removed and None goes back to the caller
DiscardArtifact ==
    /\ artifact.stage = "raised"
    /\ artifact' = [ stage |-> "none", response |-> << >>, bytes |-> << >> ]
    /\ UNCHANGED << deviceVars, buffer_lock, document, configured, queue,
                    workers >>
    /\ UNCHANGED ctrlVars

\* _play_audio_file, lines 316-353: the file is read, played and removed
PlayArtifact ==
    /\ artifact.stage = "returned"
    /\ artifact' = [ stage |-> "none", response |-> << >>, bytes |-> << >> ]
    /\ UNCHANGED << deviceVars, buffer_lock, document, configured, queue,
                    workers >>
    /\ UNCHANGED ctrlVars

\* a document of one sentence, the one being synthesized
KokoroDocument == << 1 >>

\* a manager constructed over that document, with a backend
InitKokoro ==
    /\ document = KokoroDocument
    /\ configured = TRUE
    /\ InitManager
    /\ InitDevice

\* one call of _generate_audio_for_sentence after the other, on a Kokoro
\* backend
NextKokoro ==
    \/ KokoroSynthesize
    \/ FixWavHeader
    \/ ReadArtifact
    \/ SpeedAdjust
    \/ ReturnArtifact
    \/ PlayArtifact
    \/ DiscardArtifact

SpecKokoro == InitKokoro /\ [][NextKokoro]_vars

(* ------------------------------ claims --------------------------------- *)

\* a call of op returns in this step
Returns(op) == last_call' # last_call /\ last_call'.op = op

\* the event on_speech_finished / on_speech_error / highlight_current_sentence
\* is handed in this step
Delivered(t) ==
    /\ Idle /\ Signals(queue) # {}
    /\ queue[Min(Signals(queue))].type = t
    /\ queue' = RemoveAt(queue, Min(Signals(queue)))

DeliveredEvent == queue[Min(Signals(queue))]

RunningWorkers == { w \in WorkerIds : isRunning(w) }

\* C1: once a worker's _stop_flag or its tts object's _stop_requested is
\* set, that worker does not emit finished any more.
C1_NoFinishedAfterStop ==
    [][ \A w \in WorkerIds :
          StopRequested(w)
            => workers'[w].finished_emitted = workers[w].finished_emitted ]_vars

\* C2: whenever the GUI thread is idle and no event is pending, is_speaking
\* holds exactly if the manager has a worker that has not ended by
\* completion or by a failure.
C2_SpeakingIffActiveSession ==
    (Idle /\ queue = << >>)
      => (is_speaking <=>
            (/\ tts_worker # 0
             /\ workers[tts_worker].outcome
                  \notin { "completed", "error", "failed" }))

\* _navigate_to_sentence returns in this step, having been called while
\* speaking for a target that names a sentence
NavigateToReturns ==
    /\ cop = "navigate" /\ cpc = "wait" /\ cpc' = "idle"
    /\ nav_target \in SentenceKeys(sentence_data)

\* the manager is speaking and its worker, created for key k, is the only
\* TTSWorker whose thread runs; the read-ahead thread of any other worker
\* was told to stop
OneSessionAt(k) ==
    /\ is_speaking
    /\ tts_worker # 0
    /\ RunningWorkers = { tts_worker }
    /\ << workers[tts_worker].start_block,
          workers[tts_worker].start_sentence >> = k
    /\ workers[tts_worker].current_playback_position = k
    /\ \A w \in WorkerIds \ { tts_worker } :
         ReadaheadAlive(w) => workers[w].readahead_stop_flag

\* C3 as stated: after _navigate_to_sentence(k), called while speaking with
\* k an existing sentence, the index is k and exactly one session, started
\* at k, is active.
C3_NavigateAlwaysRestarts ==
    [][ NavigateToReturns
          => /\ tts_sentence_index' = nav_target
             /\ OneSessionAt(tts_sentence_index)' ]_vars

\* C3 amended: after _navigate_to_sentence(k), called while speaking with k
\* an existing sentence, the index is k; when it returned True exactly one
\* session, started at k, is active; when it returned False (the new session
\* could not be built) the manager has no worker and no worker thread runs.
C3_NavigateRestartsWhenTrue ==
    [][ NavigateToReturns
          => /\ tts_sentence_index' = nav_target
             /\ last_call'.op = "navigate"
             /\ IF last_call'.ret
                THEN OneSessionAt(tts_sentence_index)'
                ELSE tts_worker' = 0 /\ RunningWorkers' = {} ]_vars

\* C3 witness: a navigation to a sentence other than the first returned True
\* and the session it started is the second of the manager
C3_Witness ==
    /\ Idle /\ last_call.op = "navigate" /\ last_call.ret
    /\ tts_sentence_index # << 0, 0 >>
    /\ OneSessionAt(tts_sentence_index)
    /\ tts_worker = 2

\* toggle_speech, called while speaking, returns in this step
ToggleWhileSpeakingReturns ==
    is_speaking /\ Returns("toggle_speech")

\* C4 as stated: no two worker threads run at once, and toggle_speech called
\* while speaking leaves the session, is_speaking and the index as they are.
C4_SecondStartIsNoOp ==
    [][ /\ Cardinality(RunningWorkers') <= 1
        /\ ToggleWhileSpeakingReturns
             => UNCHANGED << tts_worker, is_speaking,
                             tts_sentence_index >> ]_vars

\* C4 amended: no two worker threads run at once, and toggle_speech called
\* while speaking creates no session and leaves the index; it does what
\* stop_speech does: after a teardown the manager has no worker, is not
\* speaking and no worker thread runs, and when the worker's thread had
\* ended already nothing changes.
C4_SecondStartStops ==
    [][ /\ Cardinality(RunningWorkers') <= 1
        /\ ToggleWhileSpeakingReturns
             => /\ nextWorker' = nextWorker
                /\ tts_sentence_index' = tts_sentence_index
                /\ IF cpc = "wait"
                   THEN tts_worker' = 0 /\ ~is_speaking' /\ RunningWorkers' = {}
                   ELSE UNCHANGED << tts_worker, is_speaking, workers >> ]_vars

\* C4 witness: toggle_speech, called while speaking, has told the running
\* worker to stop and waits for its thread
C4_Witness ==
    /\ cop = "toggle_speech" /\ cpc = "wait"
    /\ is_speaking /\ tts_worker # 0
    /\ workers[tts_worker].stop_flag
    /\ isRunning(tts_worker)

\* the manager's worker w failed on a sentence, its thread has ended and no
\* event of w is pending
FailureSettled(w) ==
    /\ Idle /\ tts_worker = w
    /\ workers[w].outcome = "failed" /\ workers[w].wstate = "finished"
    /\ \A i \in 1 .. Len(queue) : queue[i].w # w

\* C5: after the synthesis or the playback of a sentence failed, the worker
\* has not emitted finished, the error was shown exactly once, is_speaking is
\* false and the index is the sentence that had started.
C5_FailureSurfacedOnce ==
    \A w \in WorkerIds :
        FailureSettled(w)
          => /\ workers[w].finished_emitted = 0
             /\ error_boxes[w] = 1
             /\ ~is_speaking
             /\ tts_sentence_index = workers[w].current_playback_position

\* C6: a finished or error event handed to the manager while _is_navigating
\* is set, or sent by the worker that the last navigation tore down, leaves
\* is_speaking and the new worker as they are.
C6_StaleCallbackIgnored ==
    [][ ( /\ Delivered("finished") \/ Delivered("error")
          /\ \/ is_navigating
             \/ /\ last_call.op = "navigate" /\ last_call.ret
                /\ DeliveredEvent.w # tts_worker )
        => UNCHANGED << is_speaking, tts_worker, workers >> ]_vars

\* C7: a sentence_started event of a worker that is no longer the manager's
\* (it was torn down by stop_speech or by a navigation) leaves the index.
C7_StaleSentenceStartedDropped ==
    [][ (Delivered("sentence_started") /\ DeliveredEvent.w # tts_worker)
          => tts_sentence_index' = tts_sentence_index ]_vars

\* the keys of d from << b, s >> on, in document order
RECURSIVE KeysFrom(_, _, _)
KeysFrom(d, b, s) ==
    IF b >= NumBlocks(d) THEN << >>
    ELSE IF s < NumSentences(d, b)
         THEN << << b, s >> >> \o KeysFrom(d, b, s + 1)
         ELSE KeysFrom(d, b + 1, 0)

StrictlyIncreasing(q) ==
    \A i \in 1 .. Len(q) - 1 : KeyLess(q[i], q[i + 1])

\* what worker w has emitted so far is in order: the first key is the key it
\* was created for, the keys are strictly increasing, finished was emitted at
\* most once, and a worker about to emit finished has emitted every key from
\* its first on
EmittedInOrder(w) ==
    LET r == workers[w] IN
    /\ StrictlyIncreasing(r.started)
    /\ r.finished_emitted <= 1
    /\ (r.pc = "fetch" /\ Len(r.started) = 1)
         => r.started[1] = << r.start_block, r.start_sentence >>
    /\ r.pc = "emit_finished"
         => /\ r.started # << >>
            /\ r.finished_emitted = 0
            /\ r.started = KeysFrom(sentence_data, r.started[1][1],
                                    r.started[1][2])

\* C8: every worker emits in order (EmittedInOrder), and when the finished
\* event of the manager's worker, which nobody told to stop, is handed to
\* the manager, is_speaking becomes false.
C8_FullRunThenStopped ==
    [][ /\ \A w \in WorkerIds : EmittedInOrder(w)'
        /\ ( /\ Delivered("finished")
             /\ DeliveredEvent.w = tts_worker
             /\ ~StopRequested(tts_worker) )
           => ~is_speaking' ]_vars

\* C9: when stop_speech, called while is_speaking, returns, is_speaking is
\* false and the manager has no worker.
C9_StopEndsSpeaking ==
    [][ (is_speaking /\ Returns("stop_speech"))
          => (~is_speaking' /\ tts_worker' = 0) ]_vars

\* C10: stop_speech called right after a stop_speech, or while not speaking,
\* changes nothing of the manager or of its workers.
C10_StopIdempotent ==
    [][ (StopSpeech /\ (last_call.op = "stop_speech" \/ ~is_speaking))
          => UNCHANGED << tts_sentence_index, is_speaking, tts_worker,
                          is_navigating, workers, queue, cpc >> ]_vars

\* C10 witness: a stop_speech that tore a session down was followed by a
\* second stop_speech, which has returned
C10_Witness ==
    /\ Idle /\ last_call.op = "stop_speech" /\ last_call.again
    /\ nextWorker >= 1 /\ workers[1].stop_flag
    /\ tts_worker = 0 /\ ~is_speaking

\* stop_speech was the last call, and it left the manager as its teardown
\* does: not speaking, not navigating, without a worker
StoppedSince ==
    /\ Idle /\ last_call.op = "stop_speech"
    /\ ~is_speaking /\ ~is_navigating /\ tts_worker = 0 /\ nextWorker >= 1

\* C11: after stop_speech tore the session down nothing changes the index,
\* and the worker that the next toggle_speech creates starts at the index.
C11_StopKeepsIndex ==
    [][ StoppedSince
          => /\ tts_sentence_index' = tts_sentence_index
             /\ nextWorker' > nextWorker
                  => << workers'[nextWorker'].start_block,
                        workers'[nextWorker'].start_sentence >>
                       = tts_sentence_index ]_vars

\* C12: when navigate_to_next_sentence moves the index from a sentence of the
\* document to its target, the target navigate_to_previous_sentence computes
\* from there, if it finds one, is the sentence the index came from.
C12_NextThenPreviousReturns ==
    [][ ( /\ NavigateNextSentence
          /\ ~NavigateEarlyReturn
          /\ tts_sentence_index \in SentenceKeys(sentence_data)
          /\ cop' = "navigate" )
        => LET there == tts_sentence_index'
               back == PreviousSentenceLoop(sentence_data, there[1], there[2])
           IN FoundSentence(sentence_data, back)
                => back = tts_sentence_index ]_vars

\* C13: a navigation whose target is no sentence of the document returns
\* False and the session it found is still the manager's running session.
C13_OutOfRangeNavigateIgnored ==
    [][ ( /\ cop = "navigate"
          /\ nav_target \notin SentenceKeys(sentence_data)
          /\ Returns("navigate") )
        => /\ last_call'.ret = FALSE
           /\ is_speaking'
           /\ tts_worker' = tts_worker
           /\ workers'[tts_worker].wstate = "running"
           /\ ~workers'[tts_worker].stop_flag ]_vars

\* no sentence of the document lies after the index
NoLaterSentence ==
    \A k \in SentenceKeys(sentence_data) : ~KeyLess(tts_sentence_index, k)

\* no sentence of the document lies before the index
NoEarlierSentence ==
    \A k \in SentenceKeys(sentence_data) : ~KeyLess(k, tts_sentence_index)

\* no block after the index's block has a sentence
NoLaterParagraph ==
    \A k \in SentenceKeys(sentence_data) : k[1] <= tts_sentence_index[1]

\* no block before the index's block has a sentence
NoEarlierParagraph ==
    \A k \in SentenceKeys(sentence_data) : k[1] >= tts_sentence_index[1]

\* a relative navigation helper is called and the document has no target
HelperWithoutTarget ==
    \/ NavigateNextSentence /\ NoLaterSentence
    \/ NavigatePreviousSentence /\ NoEarlierSentence
    \/ NavigateNextParagraph /\ NoLaterParagraph
    \/ NavigatePreviousParagraph /\ NoEarlierParagraph

\* C14: a relative navigation helper called on a speaking manager when the
\* document has no target in its direction returns False at once and leaves
\* the index, is_speaking, the worker and the queued events as they were.
C14_NoTargetLeavesState ==
    [][ ( /\ sentence_data # << >> /\ is_speaking
          /\ HelperWithoutTarget )
        => /\ Returns("navigate") /\ last_call'.ret = FALSE
           /\ cpc' = "idle"
           /\ UNCHANGED << tts_sentence_index, is_speaking, tts_worker,
                           is_navigating, workers, nextWorker, queue >> ]_vars

\* the only session runs on the last sentence, untouched, and the last call,
\* a navigation helper, returned False
C14_Witness ==
    /\ Idle /\ is_speaking /\ nextWorker = 1 /\ tts_worker = 1
    /\ isRunning(1) /\ ~StopRequested(1)
    /\ NoLaterSentence
    /\ last_call.op = "navigate" /\ last_call.ret = FALSE

\* one of the navigation entry points of the manager is called
NavigationCalled ==
    \/ NavigateNextSentence
    \/ NavigatePreviousSentence
    \/ NavigateNextParagraph
    \/ NavigatePreviousParagraph
    \/ NavigateFirstSentence

C17_StartBuildsSessionAtIndex ==
    [][ ( /\ ToggleSpeech /\ ~is_speaking
          /\ tts_worker = 0
          /\ configured /\ TotalSentences(document) > 0 )
        => \/ /\ nextWorker' = nextWorker + 1
              /\ tts_worker' = nextWorker'
              /\ is_speaking'
              /\ workers'[nextWorker'].wstate = "running"
              /\ << workers'[nextWorker'].start_block,
                    workers'[nextWorker'].start_sentence >>
                   = tts_sentence_index
           \/ /\ nextWorker' = nextWorker
              /\ IndexValid(document, tts_sentence_index) ]_vars

\* C18: the audio buffer of every worker holds at most ReadAheadCount entries
\* in every state.
C18_BufferWithinReadAhead ==
    \A w \in WorkerIds :
        Cardinality(workers[w].audio_buffer) <= ReadAheadCount

\* the workers that are between sd.play and the end of their polling loop
PlaysInFlight ==
    { w \in WorkerIds : isRunning(w) /\ workers[w].pc = "playing" }
      \cup (IF test_pc = "playing" THEN { VoiceTestId } ELSE {})

\* C19: no step of the voice test's manager or worker changes the reader's
\* index, is_speaking, worker or buffers, or takes the stream from a worker
\* of the reader that is playing.
C19_VoiceTestLeavesReaderAlone ==
    [][ VoiceTestStep
        => /\ UNCHANGED << tts_sentence_index, is_speaking, tts_worker,
                           workers, queue >>
           /\ \A w \in WorkerIds :
                (isRunning(w) /\ workers[w].pc = "playing" /\ stream = w)
                   => stream' = w ]_vars

\* C20: at most one call of _play_audio_file is between sd.play and the
\* end of its polling loop.
C20_OnePlayInFlight == Cardinality(PlaysInFlight) <= 1

\* C21: a navigation of a speaking manager goes on to stop the old worker
\* without extracting only when no entry of the old worker's buffer lies in
\* the relevance window of the target, whether or not the target is buffered.
C21_RelevantEntriesTransferred ==
    [][ (NavigationCalled /\ cop' = "navigate")
        => \/ cpc' = "nav_extract"
           \/ RelevantEntries(workers[tts_worker].audio_buffer,
                              nav_target') = {} ]_vars

\* C22: every entry put into a worker's buffer leaves it, taken by run() or
\* discarded by the cleanup: once run() has returned through its finally
\* clause and the read-ahead thread has ended, the buffer is empty.
C22_EntriesLeaveBuffer ==
    \A w \in WorkerIds :
        (workers[w].wstate = "finished" /\ workers[w].rstate = "done")
            => workers[w].audio_buffer = {}

\* C23: no artifact is left without an owner by a teardown: when
\* _navigate_to_sentence returns False after the old session was torn down,
\* no extracted entry is still held in preserved_buffer, which is dropped.
C23_NoEntryDroppedByFailedRestart ==
    [][ (Returns("navigate") /\ last_call'.ret = FALSE)
        => preserved_buffer = {} ]_vars

\* C24: when stop_speech or _navigate_to_sentence returns from a teardown,
\* neither the run() thread of the worker it tore down nor that worker's
\* read-ahead thread is still running.
C24_ThreadsEndedAtReturn ==
    [][ (StopSpeechFinish \/ NavigateFinish)
        => /\ workers'[tts_worker].wstate # "running"
           /\ workers'[tts_worker].rstate # "running" ]_vars

\* C25: a worker whose _stop_flag or whose backend's _stop_requested is set
\* emits no sentence_started.
C25_NoStartedAfterCancel ==
    [][ \A w \in WorkerIds :
          Len(workers'[w].started) > Len(workers[w].started)
              => ~StopRequested(w) ]_vars

\* the sentences of the document after the index, and those before it
KeysAfterIndex ==
    { k \in SentenceKeys(sentence_data) : KeyLess(tts_sentence_index, k) }

KeysBeforeIndex ==
    { k \in SentenceKeys(sentence_data) : KeyLess(k, tts_sentence_index) }

\* the least and the greatest key of a non-empty set of keys
LeastKey(S) == CHOOSE k \in S : \A x \in S : x = k \/ KeyLess(k, x)

GreatestKey(S) == CHOOSE k \in S : \A x \in S : x = k \/ KeyLess(x, k)

\* C26: called on a speaking manager whose index is a sentence of the
\* document, navigate_to_next_sentence moves the index to the least sentence
\* after it when there is one, and navigate_to_previous_sentence to the
\* greatest sentence before it.
C26_AdjacentSentenceTargets ==
    [][ ( /\ sentence_data # << >> /\ is_speaking
          /\ tts_sentence_index \in SentenceKeys(sentence_data) )
        => /\ (NavigateNextSentence /\ KeysAfterIndex # {})
                => tts_sentence_index' = LeastKey(KeysAfterIndex)
           /\ (NavigatePreviousSentence /\ KeysBeforeIndex # {})
                => tts_sentence_index' = GreatestKey(KeysBeforeIndex) ]_vars

\* the keys of d strictly after the position p
KeysAfter(d, p) == { k \in SentenceKeys(d) : KeyLess(p, k) }

\* the first count keys of d strictly after p, in document order: the i-th
\* is the key with i - 1 keys between p and itself
FirstKeysAfter(d, p, count) ==
    LET S == KeysAfter(d, p)
        n == IF Cardinality(S) < count THEN Cardinality(S) ELSE count
    IN [ i \in 1 .. n |->
           CHOOSE k \in S :
               Cardinality({ x \in S : KeyLess(x, k) }) = i - 1 ]

C28_CancelBeforeExtract ==
    [][ NavigateExtract => StopRequested(tts_worker) ]_vars

\* the sentence a worker was created to start on
StartKey(w) == << workers[w].start_block, workers[w].start_sentence >>

\* C29: a worker that was handed an entry for the sentence it starts on
\* plays that sentence from its buffer: it is never inside the synthesis of
\* its start sentence while the entry, taken out of its buffer again, is
\* held by a navigation.
C29_InheritedTargetPlayedFromBuffer ==
    \A w \in WorkerIds :
        ~ ( /\ isRunning(w) /\ w = tts_worker
            /\ workers[w].pc = "synth"
            /\ << workers[w].block_index, workers[w].sentence_index >>
                 = StartKey(w)
            /\ StartKey(w) \in preserved_buffer )

\* C30: once TTSWorker.stop() has set the stop flag of a worker, the
\* worker's run() thread and its read-ahead thread end and stay ended.
C30_CancellationTerminates ==
    \A w \in WorkerIds :
        [](workers[w].stop_flag
             => <>[](~isRunning(w) /\ ~ReadaheadAlive(w)))

\* a worker stopped on its second sentence has left run() by a stop test and
\* its read-ahead thread has seen the flag and left its loop
C30_Witness ==
    /\ workers[1].stop_flag
    /\ workers[1].wstate = "finished" /\ workers[1].outcome = "cancelled"
    /\ workers[1].rstate = "done"
    /\ workers[1].current_playback_position = << 0, 1 >>

\* C31: no thread is inside a with-block on a worker's _buffer_lock while it
\* is in a blocking call: run() in a synthesis or in _play_audio_file, the
\* read-ahead thread in a synthesis or in its sleep before the loop test, the
\* GUI thread in the join or the wait of a teardown.
C31_NoLockAcrossBlockingCall ==
    \A w \in WorkerIds :
        /\ (isRunning(w) /\ workers[w].pc \in { "synth", "play", "playing" })
              => buffer_lock[w] # "run"
        /\ (ReadaheadAlive(w) /\ workers[w].rpc \in { "synth", "loop" })
              => buffer_lock[w] # "readahead"
        /\ cpc \in { "join", "wait" } => buffer_lock[w] # "gui"

\* the GUI thread is inside the with-block of the extraction while run() of
\* the same worker is inside a synthesis call
C31_Witness ==
    \E w \in WorkerIds :
        /\ buffer_lock[w] = "gui"
        /\ isRunning(w) /\ workers[w].pc = "synth"

\* C32: the key of every entry the read-ahead thread puts into the buffer is
\* strictly after the worker's live position at the time it is put there.
C32_InsertedAheadOfPosition ==
    [][ \A w \in WorkerIds :
          \A k \in workers'[w].audio_buffer \ workers[w].audio_buffer :
              ReadaheadSynthesize(w)
                => KeyLess(workers[w].current_playback_position, k) ]_vars

\* C33: when on_speech_finished is handed the finished signal of the
\* manager's current worker, which was not told to stop, is_speaking is False
\* afterwards, whatever _is_navigating holds.
C33_ActiveCompletionCounts ==
    [][ ( /\ on_speech_finished
          /\ DeliveredEvent.w = tts_worker
          /\ ~StopRequested(tts_worker) )
        => ~is_speaking' ]_vars

\* one of the flags a worker's threads read goes from clear to set
FlagSet(w) ==
    \/ ~workers[w].stop_flag /\ workers'[w].stop_flag
    \/ ~workers[w].stop_requested /\ workers'[w].stop_requested
    \/ ~workers[w].readahead_stop_flag /\ workers'[w].readahead_stop_flag

\* C34: every worker is created with _stop_flag, _readahead_stop_flag and its
\* backend's _stop_requested clear, and a step sets a flag of a worker only
\* when that worker is the manager's current worker, being stopped, or in
\* that worker's own finally clause: a stop of one session sets no flag of
\* another.
C34_StopTouchesOnlyItsSession ==
    [][ /\ nextWorker' # nextWorker
           => /\ ~workers'[nextWorker'].stop_flag
              /\ ~workers'[nextWorker'].stop_requested
              /\ ~workers'[nextWorker'].readahead_stop_flag
        /\ \A w \in WorkerIds :
             FlagSet(w) => \/ w = tts_worker /\ cpc' = "join"
                           \/ WorkerFinally(w) ]_vars

\* the second session plays with its three flags clear after the first one
\* was stopped
C34_Witness ==
    /\ nextWorker = 2 /\ tts_worker = 2
    /\ workers[1].stop_flag /\ workers[1].stop_requested
    /\ isRunning(2) /\ workers[2].pc = "playing"
    /\ ~workers[2].stop_flag /\ ~workers[2].stop_requested
    /\ ~workers[2].readahead_stop_flag

\* the synthesis call of w's read-ahead thread returns without an audio path
ReadaheadSynthesisFails(w) ==
    /\ ReadaheadAlive(w) /\ workers[w].rpc = "synth"
    /\ workers'[w].rpc # "synth"
    /\ Head(workers[w].sentences_to_buffer) \notin workers'[w].audio_buffer

NearestParagraph(b, dir) ==
    LET cur == tts_sentence_index[1]
        d   == sentence_data
    IN /\ b \in 0 .. NumBlocks(d) - 1
       /\ (b - cur) * dir > 0
       /\ NumSentences(d, b) > 0
       /\ \A c \in 0 .. NumBlocks(d) - 1 :
            ((c - cur) * dir > 0 /\ (b - c) * dir > 0)
               => NumSentences(d, c) = 0

SizeField(n) == [ i \in 1 .. 4 |-> (n \div 256 ^ (i - 1)) % 256 ]

\* where chunk headers lie in a file, each chunk found behind the one before
RECURSIVE ChunkHeaders(_, _)
ChunkHeaders(bytes, p) ==
    IF p + 8 > Len(bytes) THEN {}
    ELSE { p } \cup ChunkHeaders(bytes,
                                 p + 8 + Unpack32(SubSeq(bytes, p + 5, p + 8)))

\* the headers of a file's data chunks
DataChunkHeaders(bytes) ==
    { p \in ChunkHeaders(bytes, 12) : SubSeq(bytes, p + 1, p + 4) = Tagdata }

\* the RIFF size is the file's length less 8, and the first data chunk's size
\* is the number of bytes behind its header
HeaderSizesRight(bytes) ==
    /\ Len(bytes) >= 20
    /\ SubSeq(bytes, 5, 8) = SizeField(Len(bytes) - 8)
    /\ DataChunkHeaders(bytes) # {}
    /\ LET p == CHOOSE q \in DataChunkHeaders(bytes) :
                    \A o \in DataChunkHeaders(bytes) : q <= o
       IN  SubSeq(bytes, p + 5, p + 8) = SizeField(Len(bytes) - (p + 8))

\* C37: a Kokoro artifact that soundfile reads, that is stretched, or that
\* goes back to be buffered or played has had its header patched: its RIFF
\* size field is the file's length less 8 and its data chunk's size field is
\* the number of bytes behind the data chunk's header; the patch changes
\* nothing else of the file
C37_HeaderPatchedBeforeUse ==
    artifact.stage \in { "patched", "read", "adjusted", "returned" }
    => /\ HeaderSizesRight(artifact.bytes)
       /\ Len(artifact.bytes) = Len(artifact.response)

\* a streamed response, both sizes unknown and a chunk before the data chunk,
\* went back to the caller with its sizes patched
C37_Witness ==
    /\ artifact.stage = "returned"
    /\ SubSeq(artifact.response, 5, 8) = StreamingSize
    /\ SubSeq(artifact.response, 13, 16) = Tagfmt
    /\ \E p \in DataChunkHeaders(artifact.response) :
         /\ p > 12
         /\ SubSeq(artifact.response, p + 5, p + 8) = StreamingSize
         /\ Len(artifact.response) > p + 8
    /\ artifact.bytes # artifact.response

====
